---- MODULE Spec2Model ----
(***************************************************************************)
(* Order composition of lnq-backend: the order routes (create, update,    *)
(* delete, read), the request validation in front of them, the product    *)
(* price update, the storage they act on (products, orders, order_items   *)
(* with their foreign keys), the parse of the id in the path, the shape   *)
(* of the orders returned, and the print route with the receipt it builds *)
(* and the printer device it writes to.                                   *)
(*                                                                         *)
(* An optional value (a key that may be missing from a JSON body, a       *)
(* nullable column) is a set: {} when missing/NULL, {v} when present.     *)
(***************************************************************************)
EXTENDS Integers, Sequences, FiniteSets, TLC

VARIABLES products, orders, orderItems, nextOrderId, nextItemId,
          pc, req, resp, issued, handles, device

vars == <<products, orders, orderItems, nextOrderId, nextItemId,
          pc, req, resp, issued, handles, device>>

dbVars == <<products, orders, orderItems, nextOrderId, nextItemId>>

\* The printer device: the handlers holding an open handle on it, and the
\* receipts written to it, in the order of the writes.
printerVars == <<handles, device>>

\* ------------------------------------------------------------------ bounds

\* Requests issued in one behaviour.
MaxRequests == 2

\* Handlers that can be in flight on the event loop at once; a new request
\* runs in the first free one.
Clients == {1, 2}

None == {}

Some(v) == {v}

The(opt) == CHOOSE v \in opt : TRUE

\* ------------------------------------------------------------------ storage

\* The products table before the first request: product 1.
InitialProducts == (1 :> 100)

\* Product ids requests may name; 2 is never a stored product.
ProductIds == {1, 2}

Prices == {100, 250}

\* order_items row, all columns of the table.
Row(id, orderId, itemType, productId, amount, notes, priceAtSale, customName, customPrice) ==
    [id |-> id, orderId |-> orderId, itemType |-> itemType,
     productId |-> productId, amount |-> amount, notes |-> notes,
     priceAtSale |-> priceAtSale, customName |-> customName,
     customPrice |-> customPrice]

\* orders row.
OrderRow(id, customerName, pickupDate, notes) ==
    [id |-> id, customerName |-> customerName, pickupDate |-> pickupDate,
     notes |-> notes]

OrderIdsStored == {o.id : o \in orders}

OrderExists(id) == id \in OrderIdsStored

\* Rows of order_items owned by an order, in table order.
ItemsOf(id) == SelectSeq(orderItems, LAMBDA r : r.orderId = id)

\* products.findFirst(where id = pid): the price, or None when no row matches.
LookupPrice(pid) ==
    IF pid \in DOMAIN products THEN Some(products[pid]) ELSE None

\* ------------------------------------------------------------------ request bodies

\* An item payload as a client sends it (JSON object; missing keys are None).
Payload(itemType, productId, amount, notes, priceAtSale, customName, customPrice) ==
    [itemType |-> itemType, productId |-> productId, amount |-> amount,
     notes |-> notes, priceAtSale |-> priceAtSale, customName |-> customName,
     customPrice |-> customPrice]

ProdLine == Payload(Some("product"), Some(1), Some(2), None, None, None, None)

ProdLineZero == Payload(Some("product"), Some(1), Some(1), None, Some(0), None, None)

ProdLineMissing == Payload(Some("product"), Some(2), Some(1), None, None, None, None)

CustomLine == Payload(Some("custom"), None, None, None, None, Some("Shipping"), Some(10))

BogusLine == Payload(Some("bogus"), Some(1), Some(1), None, None, None, None)

\* The shape the route's tests send: no itemType at all.
LegacyLine == Payload(None, Some(1), Some(3), Some("note"), None, None, None)

BadAmountLine == Payload(Some("product"), Some(1), Some(0), None, None, None, None)

ItemLists ==
    { <<>>, <<ProdLine>>, <<ProdLineZero>>, <<ProdLineMissing>>, <<CustomLine>>,
      <<BogusLine>>, <<BadAmountLine>>, <<LegacyLine, ProdLine>> }

Header(customerName, pickupDate, notes) ==
    [customerName |-> customerName, pickupDate |-> pickupDate, notes |-> notes]

Headers ==
    { Header(None, None, None),
      Header(Some("alice"), Some("2026-01-04"), Some("call")) }

Body(h, items) ==
    [customerName |-> h.customerName, pickupDate |-> h.pickupDate,
     notes |-> h.notes, items |-> items]

Bodies ==
    { Body(h, il) : h \in Headers, il \in {None} \cup {Some(l) : l \in ItemLists} }
    \cup { Body(Header(Some(""), None, None), Some(<<ProdLine>>)) }

\* ------------------------------------------------------------------ validation

\* z.number().int().positive() on an optional key that is required here.
PositiveInt(opt) == opt # None /\ \A v \in opt : v > 0

\* The item object schema of createOrderSchema / updateOrderSchema:
\* productId and amount required positive integers, notes optional.
ItemSchemaOk(p) == PositiveInt(p.productId) /\ PositiveInt(p.amount)

\* z.object() keeps the keys the schema declares and strips every other key:
\* itemType, priceAtSale, customName and customPrice are not declared.
ParseItem(p) ==
    [p EXCEPT !.itemType = None, !.priceAtSale = None,
              !.customName = None, !.customPrice = None]

\* An items array that is taken as it comes.
ItemsSchemaOkAny(items) == TRUE

ItemsSchemaOk(items) ==
    /\ Len(items) >= 1
    /\ \A i \in 1..Len(items) : ItemSchemaOk(items[i])

createOrderSchemaOk(b) ==
    /\ b.customerName # None /\ b.customerName # Some("")
    /\ b.items # None /\ \A l \in b.items : ItemsSchemaOk(l)

updateOrderSchemaOk(b) ==
    /\ b.customerName # Some("")
    /\ \A l \in b.items : ItemsSchemaOk(l)

ParseItems(l) == [i \in 1..Len(l) |-> ParseItem(l[i])]

\* validateRequest: req.body = the parsed value.
ParseBody(b) == [b EXCEPT !.items = {ParseItems(l) : l \in b.items}]

\* errorHandler: a ValidationError answers with its status code (400); any
\* other error without a status code answers 500.
errorHandler(err) == IF err = "ValidationError" THEN 400 ELSE 500

\* ------------------------------------------------------------------ item rows

\* A dispatch that takes every item that is not 'custom' for a product line,
\* as the mapping did before items carried a type.
ItemKindUntyped(item) ==
    IF item.itemType = Some("custom") THEN "custom" ELSE "product"

\* The item mapping's dispatch on item.itemType (the handler reads the parsed
\* body): 'product', 'custom', anything else throws ValidationError(400).
ItemKind(item) ==
    IF item.itemType = Some("product") THEN "product"
    ELSE IF item.itemType = Some("custom") THEN "custom"
    ELSE "invalid"

\* Price resolution of a product line: an explicit numeric priceAtSale is used
\* as it is (0 included), otherwise product?.price ?? null.
ResolvePrice(item) ==
    IF item.priceAtSale # None THEN item.priceAtSale
    ELSE LookupPrice(The(item.productId))

\* The row the mapping returns for one item.
ItemRow(item, orderId, id) ==
    IF ItemKind(item) = "product"
    THEN Row(id, orderId, "product", item.productId, item.amount, item.notes,
             ResolvePrice(item), None, None)
    ELSE Row(id, orderId, "custom", None, None, item.notes,
             item.customPrice, item.customName, item.customPrice)

\* Promise.all rejects when the mapping of any item throws.
MappingThrows(items) == \E i \in 1..Len(items) : ItemKind(items[i]) = "invalid"

ItemRows(items, orderId) ==
    [i \in 1..Len(items) |-> ItemRow(items[i], orderId, nextItemId + i - 1)]

\* Foreign keys of order_items: order_id -> orders.id, product_id -> products.id.
ForeignKeysOk(rows) ==
    \A i \in 1..Len(rows) :
        /\ OrderExists(rows[i].orderId)
        /\ \A pid \in rows[i].productId : pid \in DOMAIN products

\* ------------------------------------------------------------------ response shape

\* with: { items: { with: { product: true } } }: the row with its product
\* joined (no product for a NULL or unmatched product_id).
ItemWithProductAt(row, prods) ==
    [k \in DOMAIN row \cup {"product"} |->
        IF k = "product"
        THEN {[price |-> prods[pid]] : pid \in row.productId \cap DOMAIN prods}
        ELSE row[k]]

ItemWithProduct(row) == ItemWithProductAt(row, products)

\* The keys of a joined item whose value can be null.
NullableKeys ==
    {"productId", "amount", "notes", "priceAtSale", "customName", "customPrice", "product"}

\* An item handed back as it was read.
cleanOrderItemKeepNulls(item) == item

\* cleanOrderItem: the keys whose value is null are deleted; a custom item
\* gets customPrice 0 when it has no number there.
cleanOrderItem(item) ==
    LET kept == {k \in DOMAIN item : k \notin NullableKeys \/ item[k] # None}
        keys == IF item.itemType = "custom" THEN kept \cup {"customPrice"} ELSE kept
    IN  [k \in keys |-> IF k \in kept THEN item[k] ELSE Some(0)]

\* cleanOrder(order).items for the rows read with the order.
cleanOrder(rows) == [i \in 1..Len(rows) |-> cleanOrderItem(ItemWithProduct(rows[i]))]

\* ------------------------------------------------------------------ receipt

\* a ?? b on optional values.
Coalesce(a, b) == IF a # None THEN a ELSE b

\* A mapping that prints a product line at the product's current price.
PrintableItemCurrentPrice(item) ==
    [name     |-> <<"item">>,
     quantity |-> The(Coalesce(item.amount, Some(1))),
     price    |-> The(Coalesce({p.price : p \in item.product},
                               Coalesce(item.priceAtSale, Some(0)))),
     notes    |-> IF item.notes # None THEN <<The(item.notes)>> ELSE <<>>]

\* printable.items: one entry per item read, custom or product. A name is a
\* tuple: the custom name, or the product's name by its id, or the fallbacks.
PrintableItem(item) ==
    IF item.itemType = "custom"
    THEN [name     |-> IF item.customName # None THEN <<The(item.customName)>>
                                                 ELSE <<"Custom Item">>,
          quantity |-> 1,
          price    |-> The(Coalesce(item.priceAtSale, Coalesce(item.customPrice, Some(0)))),
          notes    |-> IF item.notes # None THEN <<The(item.notes)>> ELSE <<>>]
    ELSE [name     |-> IF item.product # None THEN <<"product.name", The(item.productId)>>
                                              ELSE <<"Product", item.productId>>,
          quantity |-> The(Coalesce(item.amount, Some(1))),
          price    |-> The(Coalesce(item.priceAtSale,
                               Coalesce({p.price : p \in item.product}, Some(0)))),
          notes    |-> IF item.notes # None THEN <<The(item.notes)>> ELSE <<>>]

\* A PrinterOrder whose items are in the reverse of the order read.
PrintableReversed(order, rows, prods) ==
    [customer   |-> order.customerName,
     pickupDate |-> order.pickupDate,
     items      |-> [i \in 1..Len(rows) |->
                       PrintableItem(ItemWithProductAt(rows[Len(rows) + 1 - i], prods))]]

\* The PrinterOrder built from the order and the items read with it.
Printable(order, rows, prods) ==
    [customer   |-> order.customerName,
     pickupDate |-> order.pickupDate,
     items      |-> [i \in 1..Len(rows) |-> PrintableItem(ItemWithProductAt(rows[i], prods))]]

\* price.toLocaleString('id-ID') after 'Rp': the digits in groups of three
\* separated by '.', as the sequence of the groups' values.
RECURSIVE GroupThousands(_)
GroupThousands(n) ==
    IF n < 1000 THEN <<n>> ELSE Append(GroupThousands(n \div 1000), n % 1000)

formatPrice(price) == [rp |-> GroupThousands(price)]

\* An encoder whose total is the sum of the unit prices.
LineTotalUnitPrice(item) == item.price

\* const lineTotal = item.quantity * item.price
LineTotal(item) == item.quantity * item.price

\* let total = 0; for (const item of order.items) total += lineTotal
RECURSIVE TotalOf(_)
TotalOf(items) ==
    IF items = <<>> THEN 0 ELSE LineTotal(Head(items)) + TotalOf(Tail(items))

\* The body of the loop over order.items: the big name line, the reset, the
\* quantity/price line, then one line per note.
RECURSIVE ItemBlocks(_)
ItemBlocks(items) ==
    IF items = <<>> THEN <<>>
    ELSE LET item == Head(items)
         IN  <<[t |-> "big"],
               [t |-> "item", quantity |-> item.quantity, name |-> item.name],
               [t |-> "init"],
               [t |-> "price", quantity |-> item.quantity,
                               price |-> formatPrice(item.price),
                               lineTotal |-> formatPrice(LineTotal(item))]>>
             \o [n \in 1..Len(item.notes) |-> [t |-> "note", text |-> item.notes[n]]]
             \o ItemBlocks(Tail(items))

\* buildPrinterOutput: the escape sequences and lines of the receipt, in order.
buildPrinterOutput(order) ==
    <<[t |-> "init"], [t |-> "center"], [t |-> "big"],
      [t |-> "text", text |-> order.customer],
      [t |-> "init"], [t |-> "center"],
      [t |-> "date", date |-> Coalesce(order.pickupDate, Some("createdAt"))],
      [t |-> "left"], [t |-> "separator"]>>
    \o ItemBlocks(order.items)
    \o <<[t |-> "separator"], [t |-> "big"],
          [t |-> "total", total |-> formatPrice(TotalOf(order.items))],
          [t |-> "init"], [t |-> "center"], [t |-> "text", text |-> "Thank you"],
          [t |-> "cut"]>>

\* ------------------------------------------------------------------ path ids

\* req.params.id, a string, as the tuple of its characters.
Digits == <<"0", "1", "2", "3", "4", "5", "6", "7", "8", "9">>

IsDigit(ch) == \E d \in 1..Len(Digits) : Digits[d] = ch

DigitValue(ch) == (CHOOSE d \in 1..Len(Digits) : Digits[d] = ch) - 1

\* The value of the leading run of digits of s, read in base 10 after acc.
RECURSIVE ParseDigits(_, _)
ParseDigits(s, acc) ==
    IF s = <<>> \/ ~IsDigit(Head(s)) THEN acc
    ELSE ParseDigits(Tail(s), acc * Len(Digits) + DigitValue(Head(s)))

RECURSIVE SkipSpace(_)
SkipSpace(s) == IF s # <<>> /\ Head(s) = " " THEN SkipSpace(Tail(s)) ELSE s

\* parseInt(str, 10): leading whitespace skipped, an optional sign, then the
\* longest run of digits; whatever follows the digits is ignored. None is NaN
\* (no digit where the number should start).
parseInt(str) ==
    LET t    == SkipSpace(str)
        neg  == t # <<>> /\ Head(t) = "-"
        body == IF t # <<>> /\ Head(t) \in {"-", "+"} THEN Tail(t) ELSE t
    IN  IF body = <<>> \/ ~IsDigit(Head(body)) THEN None
        ELSE Some(IF neg THEN 0 - ParseDigits(body, 0) ELSE ParseDigits(body, 0))

\* isNaN(id)
isNaN(id) == id = None

\* Whether the path names a stored order, as the handler reads it.
Found(path) == ~isNaN(parseInt(path)) /\ OrderExists(The(parseInt(path)))

\* ------------------------------------------------------------------ requests

NoBody == Body(Header(None, None, None), None)

\* A request in flight; for a print request, found is whether its lookup
\* matched an order, opened whether it has opened the device, writes the
\* writes it has attempted, threw whether writeToPrinterDevice has thrown,
\* pricesAt the product prices joined by its lookup, output the receipt
\* built; for an update, header is the order row before the request.
NoReq == [op |-> "none", id |-> 0, path |-> <<>>, body |-> NoBody, raw |-> NoBody,
          before |-> <<>>, replacing |-> FALSE,
          found |-> TRUE, opened |-> FALSE, writes |-> 0, threw |-> FALSE,
          pricesAt |-> <<>>, output |-> <<>>, header |-> {}]

\* A response, with what the request did: path is the id in the path as sent
\* and id what the handler parsed from it, raw is the body as sent, items the
\* item rows of the order in the response, stored the rows the request
\* inserted, before/after the order's stored items when the request started
\* and when it answered, replacing whether its delete step had run, pricesAt
\* the product prices when its items were resolved, during the item updates
\* of the same order that were between their storage steps when a read ran,
\* found whether the id in the path matched an order, header the order row
\* in the response of a delete and the order row before an update, opened/writes/threw as in the request, data
\* the items of the order in the response body (data.items), output the
\* receipt a print request built.
NoResp == [op |-> "none", id |-> 0, path |-> <<>>, raw |-> NoBody, status |-> 0,
           items |-> <<>>, stored |-> <<>>, before |-> <<>>, after |-> <<>>,
           replacing |-> FALSE, pricesAt |-> <<>>, during |-> {}, found |-> TRUE,
           header |-> {}, opened |-> FALSE, writes |-> 0, threw |-> FALSE,
           data |-> <<>>, output |-> <<>>]

Answer(c, r) == resp' = [resp EXCEPT ![c] = r]

Start(c) ==
    /\ pc[c] = "idle"
    /\ \A d \in Clients : d < c => pc[d] # "idle"
    /\ issued < MaxRequests
    /\ issued' = issued + 1

\* ------------------------------------------------------------------ POST /api/orders

\* validateRequest(createOrderSchema), then the insert of the order header
\* (customerName and pickupDate only).
PostOrder(c, raw) ==
    /\ Start(c)
    /\ IF ~createOrderSchemaOk(raw)
       THEN /\ Answer(c, [NoResp EXCEPT !.op = "create", !.raw = raw,
                                        !.status = errorHandler("ValidationError")])
            /\ UNCHANGED <<dbVars, pc, req>>
       ELSE /\ orders' = orders \cup
                  {OrderRow(nextOrderId, The(raw.customerName), raw.pickupDate, None)}
            /\ nextOrderId' = nextOrderId + 1
            /\ req' = [req EXCEPT ![c] = [NoReq EXCEPT !.op = "create",
                          !.id = nextOrderId, !.body = ParseBody(raw), !.raw = raw]]
            /\ pc' = [pc EXCEPT ![c] = "post_items"]
            /\ Answer(c, NoResp)
            /\ UNCHANGED <<products, orderItems, nextItemId>>
    /\ UNCHANGED printerVars

\* The rest of a handler that inserts items: the item mapping (with its
\* product lookups), the insert of the batch and, for POST, the final read.
\* The mapping throws before any row is handed to storage; a batch that
\* breaks a foreign key is rejected whole and still consumes its serial ids.
InsertItems(c, okStatus, okPc) ==
    LET r     == req[c]
        items == The(r.body.items)
        rows  == ItemRows(items, r.id)
        base  == [NoResp EXCEPT !.op = r.op, !.id = r.id, !.path = r.path, !.raw = r.raw,
                                !.before = r.before, !.replacing = r.replacing,
                                !.pricesAt = products, !.found = r.found,
                                !.header = r.header]
    IN  IF MappingThrows(items)
        THEN /\ Answer(c, [base EXCEPT !.status = errorHandler("ValidationError"),
                                       !.after = ItemsOf(r.id)])
             /\ pc' = [pc EXCEPT ![c] = "idle"]
             /\ req' = [req EXCEPT ![c] = NoReq]
             /\ UNCHANGED dbVars
        ELSE IF ~ForeignKeysOk(rows)
        THEN /\ Answer(c, [base EXCEPT !.status = errorHandler("DatabaseError"),
                                       !.after = ItemsOf(r.id)])
             /\ pc' = [pc EXCEPT ![c] = "idle"]
             /\ req' = [req EXCEPT ![c] = NoReq]
             /\ nextItemId' = nextItemId + Len(rows)
             /\ UNCHANGED <<products, orders, orderItems, nextOrderId>>
        ELSE /\ orderItems' = orderItems \o rows
             /\ nextItemId' = nextItemId + Len(rows)
             /\ IF okPc = "idle"
                THEN /\ Answer(c, [base EXCEPT !.status = okStatus, !.stored = rows,
                              !.items = SelectSeq(orderItems \o rows,
                                                  LAMBDA x : x.orderId = r.id),
                              !.after = SelectSeq(orderItems \o rows,
                                                  LAMBDA x : x.orderId = r.id),
                              !.data = cleanOrder(SelectSeq(orderItems \o rows,
                                                  LAMBDA x : x.orderId = r.id))])
                     /\ req' = [req EXCEPT ![c] = NoReq]
                ELSE /\ Answer(c, [base EXCEPT !.stored = rows])
                     /\ UNCHANGED req
             /\ pc' = [pc EXCEPT ![c] = okPc]
             /\ UNCHANGED <<products, orders, nextOrderId>>

PostItems(c) ==
    /\ pc[c] = "post_items"
    /\ InsertItems(c, 201, "idle")
    /\ UNCHANGED <<issued, printerVars>>

\* ------------------------------------------------------------------ PUT /api/orders/:id

\* updateData: the header fields the body supplies.
HasHeader(raw) == raw.customerName # None \/ raw.pickupDate # None \/ raw.notes # None

\* db.update(orders).set(updateData).where(id): the rows of the table after it.
UpdateHeader(id, raw) ==
    { IF o.id # id THEN o
      ELSE OrderRow(id,
               IF raw.customerName # None THEN The(raw.customerName) ELSE o.customerName,
               IF raw.pickupDate # None THEN raw.pickupDate ELSE o.pickupDate,
               IF raw.notes # None THEN raw.notes ELSE o.notes) : o \in orders }

\* An existence check that runs only with the header update.
PutNotFoundWithHeaderOnly(id, raw) == HasHeader(raw) /\ ~OrderExists(id)

\* The two 404 exits: the header update matched no row; or, with no header
\* field to update, findFirst found no order.
PutNotFound(id, raw) ==
    IF HasHeader(raw) THEN {o \in orders : o.id = id} = {}
                      ELSE ~OrderExists(id)

\* A handler that replaces the items whatever the body holds.
ReplacesItemsAlways(raw) == TRUE

\* if (data.items)
ReplacesItems(raw) == raw.items # None

\* validateRequest(updateOrderSchema), the parse of the path id, then the
\* header update (when a header field is supplied) or the existence check;
\* 404 when no row matches.
PutOrder(c, path, raw) ==
    LET parsed == parseInt(path)
        id     == The(parsed)
        base   == [NoResp EXCEPT !.op = "update", !.path = path, !.raw = raw,
                                 !.found = Found(path)]
    IN  /\ Start(c)
        /\ IF ~updateOrderSchemaOk(raw) \/ isNaN(parsed)
           THEN /\ Answer(c, [base EXCEPT !.status = errorHandler("ValidationError"),
                                          !.id = IF isNaN(parsed) THEN 0 ELSE id])
                /\ UNCHANGED <<dbVars, pc, req>>
           ELSE IF PutNotFound(id, raw)
           THEN /\ Answer(c, [base EXCEPT !.status = 404, !.id = id])
                /\ UNCHANGED <<dbVars, pc, req>>
           ELSE /\ orders' = IF HasHeader(raw) THEN UpdateHeader(id, raw) ELSE orders
                /\ req' = [req EXCEPT ![c] = [NoReq EXCEPT !.op = "update", !.id = id,
                              !.path = path, !.body = ParseBody(raw), !.raw = raw,
                              !.before = ItemsOf(id), !.found = Found(path),
                              !.header = {o \in orders : o.id = id}]]
                /\ pc' = [pc EXCEPT ![c] =
                              IF ReplacesItems(raw) THEN "put_delete" ELSE "put_read"]
                /\ Answer(c, NoResp)
                /\ UNCHANGED <<products, orderItems, nextOrderId, nextItemId>>
        /\ UNCHANGED printerVars

\* db.delete(orderItems).where(orderId = id)
PutDeleteItems(c) ==
    /\ pc[c] = "put_delete"
    /\ orderItems' = SelectSeq(orderItems, LAMBDA r : r.orderId # req[c].id)
    /\ req' = [req EXCEPT ![c].replacing = TRUE]
    /\ pc' = [pc EXCEPT ![c] = "put_items"]
    /\ UNCHANGED <<products, orders, nextOrderId, nextItemId, resp, issued, printerVars>>

PutItems(c) ==
    /\ pc[c] = "put_items"
    /\ InsertItems(c, 200, "put_read")
    /\ UNCHANGED <<issued, printerVars>>

\* The final read of the order and the 200 answer.
PutRead(c) ==
    LET r == req[c]
    IN  /\ pc[c] = "put_read"
        /\ Answer(c, [NoResp EXCEPT !.op = "update", !.id = r.id, !.path = r.path,
                         !.raw = r.raw, !.status = 200, !.items = ItemsOf(r.id),
                         !.stored = resp[c].stored, !.pricesAt = resp[c].pricesAt,
                         !.before = r.before, !.after = ItemsOf(r.id),
                         !.replacing = r.replacing, !.found = r.found,
                         !.header = r.header,
                         !.data = cleanOrder(ItemsOf(r.id))])
        /\ pc' = [pc EXCEPT ![c] = "idle"]
        /\ req' = [req EXCEPT ![c] = NoReq]
        /\ UNCHANGED <<dbVars, issued, printerVars>>

\* ------------------------------------------------------------------ DELETE, GET

\* A delete that matches no row.
DeletedRowsNone(id) == {}

\* db.delete(orders).where(id).returning(): the rows deleted.
DeletedRows(id) == {o \in orders : o.id = id}

\* order_items rows that outlive their order.
NoCascade(rows, id) == rows

\* order_items.order_id references orders.id ON DELETE cascade: the rows of
\* the table after order id is deleted.
CascadeDelete(rows, id) == SelectSeq(rows, LAMBDA r : r.orderId # id)

\* DELETE /api/orders/:id: 400 when the path id is NaN, 404 when no row was
\* deleted, else the deleted row.
DeleteOrder(c, path) ==
    LET parsed == parseInt(path)
        id     == The(parsed)
        result == DeletedRows(id)
        base   == [NoResp EXCEPT !.op = "delete", !.path = path, !.found = Found(path)]
    IN  /\ Start(c)
        /\ IF isNaN(parsed)
           THEN /\ Answer(c, [base EXCEPT !.status = errorHandler("ValidationError")])
                /\ UNCHANGED <<orders, orderItems>>
           ELSE IF result # {}
           THEN /\ orders' = orders \ result
                /\ orderItems' = CascadeDelete(orderItems, id)
                /\ Answer(c, [base EXCEPT !.id = id, !.status = 200,
                                 !.before = ItemsOf(id), !.header = result])
           ELSE /\ Answer(c, [base EXCEPT !.id = id, !.status = 404])
                /\ UNCHANGED <<orders, orderItems>>
        /\ UNCHANGED <<products, nextOrderId, nextItemId, pc, req, printerVars>>

\* Item updates of order id that have started and not yet answered.
UpdatesInProgress(id) ==
    { [old |-> req[u].before, n |-> Len(The(req[u].raw.items))] :
        u \in { x \in Clients : /\ req[x].op = "update" /\ req[x].id = id
                                /\ req[x].raw.items # None
                                /\ pc[x] \in {"put_delete", "put_items", "put_read"} } }

\* db.query.orders.findFirst({ with: { items } }): one query, one snapshot.
GetOrder(c, path) ==
    LET parsed == parseInt(path)
        id     == The(parsed)
        base   == [NoResp EXCEPT !.op = "get", !.path = path, !.found = Found(path)]
    IN  /\ Start(c)
        /\ IF isNaN(parsed)
           THEN Answer(c, [base EXCEPT !.status = errorHandler("ValidationError")])
           ELSE IF OrderExists(id)
           THEN Answer(c, [base EXCEPT !.id = id, !.status = 200,
                              !.items = ItemsOf(id), !.during = UpdatesInProgress(id),
                              !.data = cleanOrder(ItemsOf(id))])
           ELSE Answer(c, [base EXCEPT !.id = id, !.status = 404])
        /\ UNCHANGED <<dbVars, pc, req, printerVars>>

\* ------------------------------------------------------------------ PUT /api/products/:id

\* db.update(products).set({price}).where(id); 404 when no row matches.
PutProduct(c, pid, price) ==
    /\ Start(c)
    /\ IF pid \in DOMAIN products
       THEN /\ products' = [products EXCEPT ![pid] = price]
            /\ Answer(c, [NoResp EXCEPT !.op = "product", !.id = pid, !.status = 200])
       ELSE /\ Answer(c, [NoResp EXCEPT !.op = "product", !.id = pid, !.status = 404])
            /\ UNCHANGED products
    /\ UNCHANGED <<orders, orderItems, nextOrderId, nextItemId, pc, req, printerVars>>

\* ------------------------------------------------------------------ POST /api/printer/orders/:id/print

\* if (!order)
OrderMissing(order) == order = {}

\* A print route that goes to the device with an empty receipt when its
\* lookup finds no order.
PrintOrderUnchecked(c, path) ==
    LET parsed == parseInt(path)
        id     == IF isNaN(parsed) THEN 0 ELSE The(parsed)
        order  == {o \in orders : o.id = id}
    IN  /\ Start(c)
        /\ req' = [req EXCEPT ![c] = [NoReq EXCEPT !.op = "print", !.id = id,
                      !.path = path, !.before = ItemsOf(id), !.found = Found(path),
                      !.pricesAt = products,
                      !.output = IF OrderMissing(order) THEN <<>>
                                 ELSE buildPrinterOutput(
                                          Printable(The(order), ItemsOf(id), products))]]
        /\ pc' = [pc EXCEPT ![c] = "print_open"]
        /\ Answer(c, NoResp)
        /\ UNCHANGED <<dbVars, printerVars>>

\* db.query.orders.findFirst({ with: { items: { with: { product } } } }), 404
\* when it finds no order; else the receipt is built from what was read and
\* writeToPrinterDevice is called.
PrintOrder(c, path) ==
    LET parsed == parseInt(path)
        id     == The(parsed)
        order  == {o \in orders : o.id = id}
        base   == [NoResp EXCEPT !.op = "print", !.path = path, !.found = Found(path)]
    IN  /\ Start(c)
        /\ IF isNaN(parsed)
           THEN /\ Answer(c, [base EXCEPT !.status = errorHandler("ValidationError")])
                /\ UNCHANGED <<pc, req>>
           ELSE IF OrderMissing(order)
           THEN /\ Answer(c, [base EXCEPT !.id = id, !.status = 404])
                /\ UNCHANGED <<pc, req>>
           ELSE /\ req' = [req EXCEPT ![c] = [NoReq EXCEPT !.op = "print", !.id = id,
                              !.path = path,
                              !.before = ItemsOf(id), !.found = Found(path),
                              !.pricesAt = products,
                              !.output = buildPrinterOutput(
                                  Printable(The(order), ItemsOf(id), products))]]
                /\ pc' = [pc EXCEPT ![c] = "print_open"]
                /\ Answer(c, NoResp)
        /\ UNCHANGED <<dbVars, printerVars>>

\* A handler that answers 200 whatever writeToPrinterDevice did.
PrintStatusAlwaysOk(threw) == 200

\* res.json({ success: true, data: { printed: true, ... } }) after the await;
\* catch (error) { next(error) }: errorHandler answers success: false.
PrintStatus(threw) == IF threw THEN errorHandler("Error") ELSE 200

\* The answer of the print route once writeToPrinterDevice has returned or thrown.
PrintAnswer(c, r) ==
    /\ Answer(c, [NoResp EXCEPT !.op = "print", !.id = r.id, !.path = r.path,
                     !.found = r.found,
                     !.before = r.before, !.opened = r.opened, !.writes = r.writes,
                     !.threw = r.threw, !.status = PrintStatus(r.threw),
                     !.pricesAt = r.pricesAt, !.output = r.output])
    /\ pc' = [pc EXCEPT ![c] = "idle"]
    /\ req' = [req EXCEPT ![c] = NoReq]

\* fs.open(devicePath, 'w'): a handle, or an error thrown out of
\* writeToPrinterDevice before its try block.
OpenDevice(c) ==
    /\ pc[c] = "print_open"
    /\ \E ok \in BOOLEAN :
          IF ok
          THEN /\ handles' = handles \cup {c}
               /\ req' = [req EXCEPT ![c].opened = TRUE]
               /\ pc' = [pc EXCEPT ![c] = "print_write"]
               /\ UNCHANGED resp
          ELSE /\ PrintAnswer(c, [req[c] EXCEPT !.threw = TRUE])
               /\ UNCHANGED handles
    /\ UNCHANGED <<dbVars, issued, device>>

\* handle.write(buffer, 0, buffer.length, null): the receipt reaches the
\* device, or the write throws; either way the finally block runs next.
WriteDevice(c) ==
    /\ pc[c] = "print_write"
    /\ \E ok \in BOOLEAN :
          /\ device' = IF ok THEN Append(device, req[c].output) ELSE device
          /\ req' = [req EXCEPT ![c].writes = @ + 1, ![c].threw = ~ok]
    /\ pc' = [pc EXCEPT ![c] = "print_close"]
    /\ UNCHANGED <<dbVars, issued, resp, handles>>

\* A close that is skipped when the write has thrown.
CloseOnSuccess(c, threw) == IF threw THEN handles ELSE handles \ {c}

\* finally { await handle.close() }: the open handles after it.
FinallyClose(c, threw) == handles \ {c}

\* A print that undoes the order when the transport has failed.
CloseDeviceRollback(c) ==
    /\ pc[c] = "print_close"
    /\ handles' = FinallyClose(c, req[c].threw)
    /\ PrintAnswer(c, req[c])
    /\ IF req[c].threw
       THEN /\ orders' = {o \in orders : o.id # req[c].id}
            /\ orderItems' = CascadeDelete(orderItems, req[c].id)
            /\ UNCHANGED <<products, nextOrderId, nextItemId>>
       ELSE UNCHANGED dbVars
    /\ UNCHANGED <<issued, device>>

\* The finally block of writeToPrinterDevice, then the route's answer.
CloseDevice(c) ==
    /\ pc[c] = "print_close"
    /\ handles' = FinallyClose(c, req[c].threw)
    /\ PrintAnswer(c, req[c])
    /\ UNCHANGED <<dbVars, issued, device>>

\* ------------------------------------------------------------------ specification

\* The storage as the route's tests set it up before the first request: one
\* product, one order, and one order_items row inserted directly (item_type
\* takes its default 'product'; price_at_sale is NULL, or the price written
\* by an earlier sale).
Init ==
    /\ products = InitialProducts
    /\ orders = {OrderRow(1, "seed", None, None)}
    /\ \E p \in {None, Some(100)} :
          orderItems = <<Row(1, 1, "product", Some(1), Some(2), None, p, None, None)>>
    /\ nextOrderId = 2
    /\ nextItemId = 2
    /\ pc = [c \in Clients |-> "idle"]
    /\ req = [c \in Clients |-> NoReq]
    /\ resp = [c \in Clients |-> NoResp]
    /\ issued = 0
    /\ handles = {}
    /\ device = <<>>

\* Path ids requests name: the stored order, the first order a create
\* inserts (matching no row until then), and strings that are not the decimal
\* form of a positive integer: no digit, digits followed by letters, a
\* negative number.
OrderIds == {<<"1">>, <<"2">>, <<"a", "b", "c">>, <<"1", "a", "b", "c">>, <<"-", "5">>}

\* The updates requests make: every body for the stored order; for every
\* path id a header-only body, a body with a product item alone and a body
\* with an item of unrecognized type alone.
PutInputs ==
    {<<<<"1">>, raw>> : raw \in Bodies}
    \cup {<<path, raw>> : path \in OrderIds,
                          raw \in {Body(Header(Some("alice"), None, None), None),
                                   Body(Header(None, None, None), Some(<<ProdLine>>)),
                                   Body(Header(None, None, None), Some(<<BogusLine>>))}}

Next ==
    \E c \in Clients :
        \/ \E raw \in Bodies : PostOrder(c, raw)
        \/ PostItems(c)
        \/ \E input \in PutInputs : PutOrder(c, input[1], input[2])
        \/ PutDeleteItems(c)
        \/ PutItems(c)
        \/ PutRead(c)
        \/ \E path \in OrderIds : DeleteOrder(c, path)
        \/ \E path \in OrderIds : GetOrder(c, path)
        \/ \E pid \in ProductIds, price \in Prices : PutProduct(c, pid, price)
        \/ \E path \in OrderIds : PrintOrder(c, path)
        \/ OpenDevice(c)
        \/ WriteDevice(c)
        \/ CloseDevice(c)

Spec == Init /\ [][Next]_vars

\* ------------------------------------------------------------------ reads and prints of stored orders

\* order_items rows of order 1 as the table's columns allow them: a product
\* row with its price at sale, a product row without one (as inserted before
\* the column existed) with notes, a custom row, a custom row with every
\* nullable column NULL but notes, and a product row without amount.
StoredRows ==
    { Row(0, 1, "product", Some(1), Some(2), None, Some(12000), None, None),
      Row(0, 1, "product", Some(1), Some(2), Some("no ice"), None, None, None),
      Row(0, 1, "custom", None, None, None, Some(5000), Some("Shipping"), Some(5000)),
      Row(0, 1, "custom", None, None, Some("fragile"), None, None, None),
      Row(0, 1, "product", Some(1), None, None, Some(0), None, None) }

\* Rows of order 1 in the table, with their serial ids.
StoredItemLists ==
    { [i \in 1..Len(l) |-> [l[i] EXCEPT !.id = i]] :
        l \in {<<>>} \cup {<<a>> : a \in StoredRows}
                     \cup {<<a, b>> : a \in StoredRows, b \in StoredRows} }

\* A storage that holds one product and one order with any of these item
\* lists, before the first request.
InitStored ==
    /\ products = InitialProducts
    /\ orders = {OrderRow(1, "seed", None, None)}
    /\ orderItems \in StoredItemLists
    /\ nextOrderId = 2
    /\ nextItemId = Len(orderItems) + 1
    /\ pc = [c \in Clients |-> "idle"]
    /\ req = [c \in Clients |-> NoReq]
    /\ resp = [c \in Clients |-> NoResp]
    /\ issued = 0
    /\ handles = {}
    /\ device = <<>>

\* Reads and prints of stored orders, and product price updates.
NextStored ==
    \E c \in Clients :
        \/ \E path \in {<<"1">>, <<"2">>} : GetOrder(c, path)
        \/ \E price \in Prices : PutProduct(c, 1, price)
        \/ \E path \in {<<"1">>, <<"2">>} : PrintOrder(c, path)
        \/ OpenDevice(c)
        \/ WriteDevice(c)
        \/ CloseDevice(c)

SpecStored == InitStored /\ [][NextStored]_vars

\* ------------------------------------------------------------------ vocabulary of the properties

\* The item payloads a request sent.
Sent(r) == IF r.raw.items = None THEN <<>> ELSE The(r.raw.items)

IsProductLine(p) ==
    p.itemType = Some("product") /\ PositiveInt(p.productId) /\ PositiveInt(p.amount)

IsCustomLine(p) ==
    p.itemType = Some("custom") /\ p.customName # None /\ p.customPrice # None

\* A payload whose tag is neither 'product' nor 'custom'.
Unrecognized(p) == p.itemType # None /\ p.itemType \notin {Some("product"), Some("custom")}

\* An items array as the order contract accepts it: non-empty, every payload
\* tagged product or custom with the fields of its tag.
ValidItems(l) ==
    Len(l) >= 1 /\ \A i \in 1..Len(l) : IsProductLine(l[i]) \/ IsCustomLine(l[i])

\* A create or update request that supplied a valid items array and was not
\* turned away for its header or its id.
ValidItemRequest(r) ==
    /\ r.op \in {"create", "update"}
    /\ r.status \notin {0, 404}
    /\ r.raw.items # None /\ ValidItems(Sent(r))
    /\ r.op = "create" => r.raw.customerName # None

\* C1: a read of an order taken while an item update of that order is between
\* its storage steps returns the complete old item set or the complete new one
\* (as many rows as were submitted, none of them an old row).
ReadSeesOldOrNewSet ==
    \A c \in Clients :
        (resp[c].op = "get" /\ resp[c].status = 200) =>
            \A u \in resp[c].during :
                \/ resp[c].items = u.old
                \/ /\ Len(resp[c].items) = u.n
                   /\ \A i \in 1..Len(resp[c].items), j \in 1..Len(u.old) :
                          resp[c].items[i].id # u.old[j].id

\* C2: an update that fails after its replacement of items has started leaves
\* the order's stored items exactly as they were before the request.
FailedReplaceKeepsItems ==
    \A c \in Clients :
        (resp[c].op = "update" /\ resp[c].replacing /\ resp[c].status \notin {0, 200})
            => resp[c].after = resp[c].before

\* C3: a product line submitted without priceAtSale is stored with the
\* Product's price at that moment, and the stored row keeps it afterwards.
SnapshotPriceStored ==
    \A c \in Clients :
        ValidItemRequest(resp[c]) =>
            \A i \in 1..Len(Sent(resp[c])) :
                LET p == Sent(resp[c])[i]
                IN  (/\ IsProductLine(p) /\ p.priceAtSale = None
                     /\ The(p.productId) \in DOMAIN resp[c].pricesAt)
                    => /\ Len(resp[c].stored) >= i
                       /\ resp[c].stored[i].priceAtSale =
                              Some(resp[c].pricesAt[The(p.productId)])
                       /\ \A k \in 1..Len(orderItems) :
                              orderItems[k].id = resp[c].stored[i].id =>
                                  orderItems[k].priceAtSale = resp[c].stored[i].priceAtSale

\* C4: a product line submitted with an explicit priceAtSale (0 included) is
\* stored with exactly that priceAtSale.
ExplicitPriceStored ==
    \A c \in Clients :
        ValidItemRequest(resp[c]) =>
            \A i \in 1..Len(Sent(resp[c])) :
                LET p == Sent(resp[c])[i]
                IN  (IsProductLine(p) /\ p.priceAtSale # None)
                    => /\ Len(resp[c].stored) >= i
                       /\ resp[c].stored[i].priceAtSale = p.priceAtSale

\* The returned row is the row of the submitted payload.
Corresponds(row, p) ==
    /\ Some(row.itemType) = p.itemType
    /\ row.productId = p.productId /\ row.amount = p.amount
    /\ row.customName = p.customName /\ row.customPrice = p.customPrice

\* C5: a valid create request returns as many items as it submitted, the i-th
\* returned item being the i-th submitted payload.
CreateReturnsItemsInOrder ==
    \A c \in Clients :
        (resp[c].op = "create" /\ ValidItemRequest(resp[c])) =>
            /\ resp[c].status = 201
            /\ Len(resp[c].items) = Len(Sent(resp[c]))
            /\ \A i \in 1..Len(Sent(resp[c])) :
                   Corresponds(resp[c].items[i], Sent(resp[c])[i])

\* C6: whenever no request is in flight, every order inserted by the create
\* operation owns at least one line item (also after a failed request).
CreatedOrdersOwnItems ==
    (\A c \in Clients : pc[c] = "idle") =>
        \A o \in orders : o.id # 1 => Len(ItemsOf(o.id)) >= 1

\* A create or update request, answered, that sent a payload with an
\* unrecognized itemType.
SentUnrecognized(r) ==
    /\ r.op \in {"create", "update"} /\ r.status # 0
    /\ \E i \in 1..Len(Sent(r)) : Unrecognized(Sent(r)[i])

\* C7 as stated: a request with an unrecognized itemType in any payload is
\* answered 400 and persists no line item of the batch.
UnknownVariantAnswers400 ==
    \A c \in Clients :
        SentUnrecognized(resp[c]) => resp[c].status = 400 /\ resp[c].stored = <<>>

\* C7 as amended: such a request is answered 400, or 404 when it is an update
\* whose id matches no order, and persists no line item of the batch.
UnknownVariantRejected ==
    \A c \in Clients :
        SentUnrecognized(resp[c]) =>
            /\ \/ resp[c].status = 400
               \/ resp[c].op = "update" /\ ~resp[c].found /\ resp[c].status = 404
            /\ resp[c].stored = <<>>

\* A request whose unrecognized item passed the schema and was turned away by
\* the item mapping, and an update of a missing order answered 404.
UnknownVariantWitness ==
    /\ \E c \in Clients :
          /\ SentUnrecognized(resp[c]) /\ resp[c].status = 400
          /\ resp[c].pricesAt # <<>>
    /\ \E c \in Clients : SentUnrecognized(resp[c]) /\ resp[c].status = 404

\* C8: a product line without priceAtSale whose productId matches no Product
\* does not fail the request: the request succeeds and the line is stored with
\* a null priceAtSale.
MissingProductStoredWithNullPrice ==
    \A c \in Clients :
        ValidItemRequest(resp[c]) =>
            \A i \in 1..Len(Sent(resp[c])) :
                LET p == Sent(resp[c])[i]
                IN  (/\ IsProductLine(p) /\ p.priceAtSale = None
                     /\ resp[c].pricesAt # <<>>
                     /\ The(p.productId) \notin DOMAIN resp[c].pricesAt)
                    => /\ resp[c].status \in {200, 201}
                       /\ Len(resp[c].stored) >= i
                       /\ resp[c].stored[i].priceAtSale = None

\* ------------------------------------------------------------------ delete, update frame, print

\* C12: every stored line item belongs to a stored order, in every state of
\* every interleaving of creates, item updates and deletes.
ItemsHaveOwners ==
    \A i \in 1..Len(orderItems) : OrderExists(orderItems[i].orderId)

\* An item update that ran its replacement while a delete removed its order
\* (and the items the order had), both answered.
ItemsHaveOwnersWitness ==
    \E c, d \in Clients :
        /\ resp[d].op = "delete" /\ resp[d].status = 200 /\ resp[d].before # <<>>
        /\ resp[c].op = "update" /\ resp[c].replacing /\ resp[c].status # 0
        /\ resp[c].id = resp[d].id /\ ~OrderExists(resp[c].id)
        /\ ItemsOf(resp[c].id) = <<>>

\* The step in which handler c takes up a request of kind op.
Starts(c, op) ==
    /\ issued' = issued + 1
    /\ pc[c] = "idle" /\ \A d \in Clients : d < c => pc[d] # "idle"
    /\ IF pc'[c] = "idle" THEN resp'[c].op = op ELSE req'[c].op = op

\* The path id and the body of the request taken up in this step.
StartedId(c) == IF pc'[c] = "idle" THEN resp'[c].id ELSE req'[c].id

StartedRaw(c) == IF pc'[c] = "idle" THEN resp'[c].raw ELSE req'[c].raw

StartedPath(c) == IF pc'[c] = "idle" THEN resp'[c].path ELSE req'[c].path

\* A path id the handlers take for a number.
Numeric(path) == ~isNaN(parseInt(path))

\* C13: a delete of a stored order removes that order and all its line items
\* (and nothing else) and answers 200 with the deleted header; a delete of a
\* numeric id that matches no order answers 404 and changes no order and no
\* item.
DeleteRemovesOrderAndItems ==
    [][\A c \in Clients :
          (Starts(c, "delete") /\ Numeric(StartedPath(c))) =>
              LET id == StartedId(c)
              IN  IF OrderExists(id)
                  THEN /\ resp'[c].status = 200
                       /\ resp'[c].header = {o \in orders : o.id = id}
                       /\ orders' = {o \in orders : o.id # id}
                       /\ orderItems' = SelectSeq(orderItems, LAMBDA r : r.orderId # id)
                  ELSE /\ resp'[c].status = 404
                       /\ orders' = orders /\ orderItems' = orderItems]_vars

\* A delete answered 200 with the header of an order that owned an item; the
\* order and the item are gone.
DeleteWitness ==
    \E c \in Clients :
        /\ resp[c].op = "delete" /\ resp[c].status = 200
        /\ resp[c].before # <<>> /\ resp[c].header # {}
        /\ ~OrderExists(resp[c].id) /\ orderItems = <<>>

\* C14: an update of a stored order that supplies valid items, alone in the
\* behaviour, succeeds, and the order then holds exactly the submitted items,
\* in order, none of them a row the order had before.
UpdateReplacesItems ==
    \A c \in Clients :
        (/\ issued = 1 /\ resp[c].op = "update" /\ resp[c].found
         /\ ValidItemRequest(resp[c]))
            => /\ resp[c].status = 200
               /\ Len(resp[c].items) = Len(Sent(resp[c]))
               /\ \A i \in 1..Len(resp[c].items) :
                      /\ Corresponds(resp[c].items[i], Sent(resp[c])[i])
                      /\ \A j \in 1..Len(resp[c].before) :
                             resp[c].items[i].id # resp[c].before[j].id

\* A step of handler c on an update whose body has no items key.
HeaderOnlyStep(c) ==
    \/ Starts(c, "update") /\ StartedRaw(c).items = None
    \/ /\ pc[c] # "idle" /\ pc'[c] # pc[c]
       /\ req[c].op = "update" /\ req[c].raw.items = None

\* C15: no step of an update without items changes any stored line item, and
\* its 200 answer carries the order's items as they are stored.
HeaderUpdateKeepsItems ==
    [][\A c \in Clients :
          HeaderOnlyStep(c) =>
              /\ orderItems' = orderItems
              /\ (pc'[c] = "idle" /\ resp'[c].status = 200)
                     => resp'[c].items = ItemsOf(resp'[c].id)]_vars

\* A header-only update of the order that owns an item, answered 200 with
\* the item it owned when the request started.
HeaderUpdateWitness ==
    \E c \in Clients :
        /\ resp[c].op = "update" /\ resp[c].raw.items = None
        /\ HasHeader(resp[c].raw) /\ resp[c].status = 200
        /\ resp[c].items # <<>> /\ resp[c].items = resp[c].before
        /\ ItemsOf(resp[c].id) = resp[c].before

\* C16: an update that passes request validation and whose numeric id matches
\* no order answers 404 at once, with or without header fields, and changes
\* no order and no line item.
UpdateOfMissingOrderIs404 ==
    [][\A c \in Clients :
          (/\ Starts(c, "update") /\ Numeric(StartedPath(c))
           /\ updateOrderSchemaOk(StartedRaw(c))
           /\ ~OrderExists(StartedId(c)))
              => /\ pc'[c] = "idle" /\ resp'[c].status = 404
                 /\ orders' = orders /\ orderItems' = orderItems]_vars

\* An update of a missing order that supplied items and no header field,
\* answered 404 by the existence check, the stored item still in place.
UpdateOfMissingOrderWitness ==
    \E c \in Clients :
        /\ resp[c].op = "update" /\ ~resp[c].found /\ resp[c].status = 404
        /\ ~HasHeader(resp[c].raw) /\ resp[c].raw.items # None
        /\ orderItems # <<>>

\* C17: a print request whose numeric id matches no order is answered 404
\* without ever reaching writeToPrinterDevice: no open, no write.
PrintOfMissingOrderNeverOpens ==
    \A c \in Clients :
        /\ req[c].op = "print" => req[c].found
        /\ (resp[c].op = "print" /\ ~resp[c].found)
               => /\ Numeric(resp[c].path) => resp[c].status = 404
                  /\ ~resp[c].opened /\ resp[c].writes = 0

\* A print of a missing order answered 404 with the device untouched.
PrintOfMissingOrderWitness ==
    \E c \in Clients :
        /\ resp[c].op = "print" /\ ~resp[c].found /\ resp[c].status = 404
        /\ Numeric(resp[c].path)
        /\ handles = {} /\ device = <<>>

\* C18: at no time do two print operations hold the device open at once.
PrintsSerialized == Cardinality(handles) <= 1

\* C19: a handle of the device is open only while the writeToPrinterDevice
\* call that opened it is between its open and the end of its finally block;
\* once the call has returned or thrown, its handle is closed.
HandlesClosed ==
    \A c \in Clients :
        c \in handles => /\ req[c].op = "print" /\ req[c].opened
                         /\ pc[c] \in {"print_write", "print_close"}

\* A call whose write threw and a call that succeeded, both completed, with
\* no handle left open.
HandlesClosedWitness ==
    /\ \E c \in Clients :
          /\ resp[c].op = "print" /\ resp[c].opened /\ resp[c].threw
          /\ pc[c] = "idle"
    /\ \E c \in Clients :
          /\ resp[c].op = "print" /\ resp[c].opened /\ ~resp[c].threw
          /\ pc[c] = "idle"
    /\ handles = {}

\* C20: a print request attempts at most one write; when the open or the
\* write fails it is answered with an error status (success: false), never
\* 200, and a 200 answer follows exactly one write that did not throw.
PrintWritesOnce ==
    \A c \in Clients :
        /\ req[c].writes <= 1
        /\ resp[c].op = "print" =>
               /\ resp[c].writes <= 1
               /\ resp[c].threw => resp[c].status >= 400
               /\ resp[c].status = 200 => resp[c].writes = 1 /\ ~resp[c].threw

\* A request whose write failed and a request whose open failed, both
\* answered 500, the device having received nothing.
PrintWritesOnceWitness ==
    /\ \E c \in Clients :
          /\ resp[c].op = "print" /\ resp[c].threw /\ resp[c].writes = 1
          /\ resp[c].status = 500
    /\ \E c \in Clients :
          /\ resp[c].op = "print" /\ resp[c].threw /\ ~resp[c].opened
          /\ resp[c].writes = 0 /\ resp[c].status = 500
    /\ device = <<>>

\* ------------------------------------------------------------------ print and storage, receipt

\* A step of handler c on a print request.
PrintStep(c) ==
    \/ Starts(c, "print")
    \/ pc[c] \in {"print_open", "print_write", "print_close"} /\ pc'[c] # pc[c]

\* C21: no step of a print request, whatever its outcome (200, 404, 400 for
\* the id, transport failure), changes a stored order, line item or product.
PrintKeepsStorage ==
    [][\A c \in Clients :
          PrintStep(c) => /\ orders' = orders /\ orderItems' = orderItems
                          /\ products' = products]_vars

\* A print whose write failed, answered 500, the order and its item still
\* stored as they were when the request read them.
PrintKeepsStorageWitness ==
    \E c \in Clients :
        /\ resp[c].op = "print" /\ resp[c].threw /\ resp[c].writes = 1
        /\ OrderExists(resp[c].id)
        /\ resp[c].before # <<>> /\ ItemsOf(resp[c].id) = resp[c].before

\* A path id that is the decimal form of a positive integer.
IsPositiveInteger(path) ==
    /\ path # <<>> /\ \A i \in 1..Len(path) : IsDigit(path[i])
    /\ ParseDigits(path, 0) > 0

\* C25: a get, update, delete or print whose path id is not a positive
\* integer is answered 400, and 404 is answered only for a positive integer.
InvalidPathIdAnswers400 ==
    \A c \in Clients :
        (resp[c].op \in {"get", "update", "delete", "print"} /\ resp[c].status # 0)
            => /\ ~IsPositiveInteger(resp[c].path) => resp[c].status = 400
               /\ resp[c].status = 404 => IsPositiveInteger(resp[c].path)

Tokens(out, t) == SelectSeq(out, LAMBDA x : x.t = t)

\* The number a formatted price shows.
RECURSIVE Ungroup(_)
Ungroup(g) ==
    IF Len(g) = 1 THEN g[1]
    ELSE Ungroup(SubSeq(g, 1, Len(g) - 1)) * 1000 + g[Len(g)]

\* Sum over the quantity/price lines of quantity * unit price, as printed.
RECURSIVE SumOfLines(_)
SumOfLines(lines) ==
    IF lines = <<>> THEN 0
    ELSE Head(lines).quantity * Ungroup(Head(lines).price.rp) + SumOfLines(Tail(lines))

\* A print request that has built its receipt, in flight or answered.
Receipts ==
    {[rows |-> req[c].before, prods |-> req[c].pricesAt, out |-> req[c].output] :
        c \in {x \in Clients : req[x].op = "print"}}
    \cup {[rows |-> resp[c].before, prods |-> resp[c].pricesAt, out |-> resp[c].output] :
            c \in {x \in Clients : resp[x].op = "print" /\ resp[x].output # <<>>}}

\* C22 as stated: the total printed is the sum of quantity * unit price over
\* the order's items, the quantity being the stored amount of a product item
\* and 1 for a custom item, the unit price the item's stored priceAtSale.
ReceiptTotalUsesStoredPrice ==
    \A r \in Receipts :
        LET lines == Tokens(r.out, "price")
        IN  /\ Len(lines) = Len(r.rows)
            /\ Ungroup(Tokens(r.out, "total")[1].total.rp) = SumOfLines(lines)
            /\ \A i \in 1..Len(lines) :
                   /\ IF r.rows[i].itemType = "custom" THEN lines[i].quantity = 1
                       ELSE Some(lines[i].quantity) = r.rows[i].amount
                   /\ Some(Ungroup(lines[i].price.rp)) = r.rows[i].priceAtSale

\* The unit price the receipt shows for a stored row: its priceAtSale; when
\* that is NULL, the customPrice of a custom row or the current price of the
\* product of a product row; 0 when that is missing too.
UnitPriceOf(row, prods) ==
    IF row.priceAtSale # None THEN The(row.priceAtSale)
    ELSE IF row.itemType = "custom"
         THEN (IF row.customPrice # None THEN The(row.customPrice) ELSE 0)
         ELSE (IF row.productId # None /\ The(row.productId) \in DOMAIN prods
               THEN prods[The(row.productId)] ELSE 0)

\* C22 as amended: the total printed is the sum of quantity * unit price, the
\* quantity being 1 for a custom item and the stored amount of a product item
\* (1 when NULL), the unit price the stored priceAtSale or its fallback.
ReceiptTotalIsSum ==
    \A r \in Receipts :
        LET lines == Tokens(r.out, "price")
        IN  /\ Len(lines) = Len(r.rows)
            /\ Ungroup(Tokens(r.out, "total")[1].total.rp) = SumOfLines(lines)
            /\ \A i \in 1..Len(lines) :
                   /\ lines[i].quantity =
                          IF r.rows[i].itemType = "custom" \/ r.rows[i].amount = None
                          THEN 1 ELSE The(r.rows[i].amount)
                   /\ Ungroup(lines[i].price.rp) = UnitPriceOf(r.rows[i], r.prods)
                   /\ Ungroup(lines[i].lineTotal.rp) =
                          lines[i].quantity * UnitPriceOf(r.rows[i], r.prods)

\* A receipt printed for a custom item at 5000 and two units of a product
\* item at 12000: TOTAL Rp29.000.
ReceiptTotalWitness ==
    \E c \in Clients :
        /\ resp[c].op = "print" /\ resp[c].status = 200
        /\ Len(resp[c].before) = 2
        /\ resp[c].before[1].itemType = "custom"
        /\ resp[c].before[2].amount = Some(2)
        /\ Tokens(resp[c].output, "total")[1].total.rp = <<29, 0>>

\* The name and quantity the receipt shows for a stored row.
ExpectedItem(row) ==
    IF row.itemType = "custom"
    THEN [t |-> "item", quantity |-> 1,
          name |-> IF row.customName # None THEN <<The(row.customName)>>
                                            ELSE <<"Custom Item">>]
    ELSE [t |-> "item", quantity |-> IF row.amount # None THEN The(row.amount) ELSE 1,
          name |-> <<"product.name", The(row.productId)>>]

PricesPrinted(rows, prods) ==
    LET out == buildPrinterOutput(
                   Printable([customerName |-> "", pickupDate |-> None], rows, prods))
    IN  <<Tokens(out, "price"), Tokens(out, "total")>>

\* C29 as stated: the unit prices and the total on a receipt are those the
\* receipt had with the product prices of before the price updates.
ReceiptIgnoresCurrentPrices ==
    \A r \in Receipts :
        <<Tokens(r.out, "price"), Tokens(r.out, "total")>>
            = PricesPrinted(r.rows, InitialProducts)

\* C29 as amended: so it is for an order whose line items all have a stored
\* priceAtSale; a product line stored without one is printed at the
\* product's price at the time of the print.
ReceiptUsesPriceAtSale ==
    \A r \in Receipts :
        /\ (\A i \in 1..Len(r.rows) : r.rows[i].priceAtSale # None) =>
               <<Tokens(r.out, "price"), Tokens(r.out, "total")>>
                   = PricesPrinted(r.rows, InitialProducts)
        /\ \A i \in 1..Len(r.rows) :
               (r.rows[i].priceAtSale = None /\ r.rows[i].itemType = "product") =>
                   Ungroup(Tokens(r.out, "price")[i].price.rp)
                       = r.prods[The(r.rows[i].productId)]

\* A receipt printed after the product's price changed, for a product line
\* sold at 12000: it shows 12000.
ReceiptUsesPriceAtSaleWitness ==
    \E c \in Clients :
        /\ resp[c].op = "print" /\ resp[c].status = 200
        /\ resp[c].pricesAt # InitialProducts
        /\ Len(resp[c].before) = 1
        /\ resp[c].before[1].priceAtSale = Some(12000)
        /\ Tokens(resp[c].output, "price")[1].price.rp = <<12, 0>>

\* ------------------------------------------------------------------ concurrent updates, validation, header

\* The stored items of order id are the rows of the payloads l, in order.
StoredIs(id, l) ==
    /\ Len(ItemsOf(id)) = Len(l)
    /\ \A i \in 1..Len(l) : Corresponds(ItemsOf(id)[i], l[i])

\* C26: once two item updates of the same order that were in flight together
\* have both answered, the order's stored items are exactly the item list of
\* one of the two requests.
ConcurrentUpdatesLeaveOneList ==
    \A c, d \in Clients :
        (/\ c # d /\ issued = 2 /\ pc[c] = "idle" /\ pc[d] = "idle"
         /\ resp[c].op = "update" /\ resp[d].op = "update"
         /\ resp[c].id = resp[d].id
         /\ resp[c].found /\ resp[d].found
         /\ ValidItemRequest(resp[c]) /\ ValidItemRequest(resp[d]))
            => \/ StoredIs(resp[c].id, Sent(resp[c]))
               \/ StoredIs(resp[c].id, Sent(resp[d]))

\* A body that request validation must reject: customerName missing or empty
\* on a create, empty on an update, an empty items array, an item whose
\* amount is not positive.
Rejected(op, raw) ==
    \/ op = "create" /\ raw.customerName = None
    \/ raw.customerName = Some("")
    \/ raw.items = Some(<<>>)
    \/ \E l \in raw.items : \E i \in 1..Len(l) :
           l[i].amount # None /\ \A v \in l[i].amount : v <= 0

\* C27: a create or update whose body request validation rejects is answered
\* 400 at once and writes nothing: no order row and no line item is inserted,
\* changed or deleted.
ValidationRejectsWithoutWrites ==
    [][\A c \in Clients : \A op \in {"create", "update"} :
          (Starts(c, op) /\ Rejected(op, StartedRaw(c)))
              => /\ pc'[c] = "idle" /\ resp'[c].status = 400
                 /\ orders' = orders /\ orderItems' = orderItems
                 /\ nextOrderId' = nextOrderId /\ nextItemId' = nextItemId]_vars

\* A create with a customerName and an empty items array, answered 400, with
\* no order inserted.
ValidationRejectsWitness ==
    \E c \in Clients :
        /\ resp[c].op = "create" /\ resp[c].status = 400
        /\ resp[c].raw.customerName = Some("alice") /\ resp[c].raw.items = Some(<<>>)
        /\ nextOrderId = 2 /\ OrderIdsStored = {1}

\* C28: an update with header fields and items that fails during its item
\* replacement, alone in the behaviour, leaves the order row as it was before
\* the request.
FailedReplaceKeepsHeader ==
    \A c \in Clients :
        (/\ issued = 1 /\ resp[c].op = "update" /\ resp[c].replacing
         /\ HasHeader(resp[c].raw) /\ resp[c].status \notin {0, 200})
            => {o \in orders : o.id = resp[c].id} = resp[c].header

\* C30: a valid create, alone in the behaviour, succeeds, and the stored order
\* row carries the submitted customerName, pickupDate and notes.
CreateKeepsHeaderFields ==
    \A c \in Clients :
        (issued = 1 /\ resp[c].op = "create" /\ ValidItemRequest(resp[c]))
            => /\ resp[c].status = 201
               /\ \E o \in orders :
                      /\ o.id = resp[c].id
                      /\ o.customerName = The(resp[c].raw.customerName)
                      /\ o.pickupDate = resp[c].raw.pickupDate
                      /\ o.notes = resp[c].raw.notes

====
